---- MODULE Spec2Model ----
(***************************************************************************)
(* Model of the table-rs Table component (Dioxus and Yew adapters):        *)
(* search filter, stable sort, pagination, header/prev/next handlers, the  *)
(* Yew debounce timer and the page-reset effect.                           *)
(*                                                                         *)
(* Strings are sequences of ASCII codes, so that to_lowercase, contains    *)
(* and cmp are computed as the code computes them.  Row indices in index   *)
(* lists are 0-based as in the source; data[idx] is written data[idx + 1]. *)
(* The model covers a table rendered with paginate = true and              *)
(* search = true.                                                          *)
(***************************************************************************)
EXTENDS Integers, Sequences, FiniteSets, TLC

VARIABLES adapter, columns, data, page_size, page, sort_column, sort_order,
          search_query, timers, debounced_search, effect_dep

vars == <<adapter, columns, data, page_size, page, sort_column, sort_order,
          search_query, timers, debounced_search, effect_dep>>

\* ------------------------------------------------------------------ bounds
MaxRows == 3
MaxPageSize == 2

\* ------------------------------------------------------------ input domains
Adapters == {"dioxus", "yew"}

\* Column ids of the columns the table is mounted with, in declaration order.
Columns == <<"name", "email">>

\* ids of the columns prop of the current render
ColumnIds == {columns[i] : i \in 1..Len(columns)}

\* None::<&'static str>
NoColumn == "<none>"

\* Strings as ASCII code sequences: "a" = <<97>>, "Ba" = <<66, 97>>,
\* "b" = <<98>>, "B" = <<66>>, "" = <<>>.
\* A row is a HashMap from a subset of the column keys to strings.
\* a row without any key
RowNoKeys == <<>>

\* {name: "a", email: "b"}
RowNameEmail == [k \in {"name", "email"} |-> IF k = "name" THEN <<97>> ELSE <<98>>]

\* {name: "Ba"}
RowNameOnly == [k \in {"name"} |-> <<66, 97>>]

Rows == {RowNoKeys, RowNameEmail, RowNameOnly}

\* Texts typed into the search input: "" and "B"
Queries == {<<>>, <<66>>}

RECURSIVE SeqsUpTo(_, _)
SeqsUpTo(S, n) ==
    IF n = 0 THEN {<<>>}
    ELSE LET shorter == SeqsUpTo(S, n - 1)
         IN  shorter \cup {Append(s, x) : s \in {t \in shorter : Len(t) = n - 1}, x \in S}

DataSets == SeqsUpTo(Rows, MaxRows)

\* The pagination scenario of the documentation: 25 rows, default page size.
DefaultPageSize == 10

ScenarioData == [i \in 1..25 |-> RowNameEmail]

Min(a, b) == IF a <= b THEN a ELSE b

Max(a, b) == IF a >= b THEN a ELSE b

\* --------------------------------------------------------- string functions
\* str::to_lowercase on ASCII text
to_lowercase(s) ==
    [i \in 1..Len(s) |-> IF s[i] \in 65..90 THEN s[i] + 32 ELSE s[i]]

\* str::contains(&str)
contains(h, n) ==
    \E i \in 0..(Len(h) - Len(n)) : SubSeq(h, i + 1, i + Len(n)) = n

\* Ord::cmp on strings: lexicographic by code; "Less", "Equal" or "Greater"
cmp(a, b) ==
    LET m == Min(Len(a), Len(b))
        diff == {i \in 1..m : a[i] # b[i]}
    IN  IF diff = {}
        THEN (IF Len(a) < Len(b) THEN "Less"
              ELSE IF Len(a) > Len(b) THEN "Greater" ELSE "Equal")
        ELSE LET i == CHOOSE j \in diff : \A l \in diff : j <= l
             IN  IF a[i] < b[i] THEN "Less" ELSE "Greater"

\* ------------------------------------------------------------------ filter
\* variant: the comparison without to_lowercase
RowMatchesCaseSensitive(row, q) ==
    \E c \in 1..Len(columns) :
        /\ columns[c] \in DOMAIN row
        /\ contains(row[columns[c]], q)

\* columns.iter().any(|col| row.get(col.id).map(..contains..).unwrap_or(false))
RowMatches(row, q) ==
    \E c \in 1..Len(columns) :
        /\ columns[c] \in DOMAIN row
        /\ contains(to_lowercase(row[columns[c]]), to_lowercase(q))

\* data.iter().enumerate().filter(..).map(|(idx, _)| idx).collect()
RECURSIVE FilterFrom(_, _, _)
FilterFrom(d, q, i) ==
    IF i >= Len(d) THEN <<>>
    ELSE IF RowMatches(d[i + 1], q)
         THEN <<i>> \o FilterFrom(d, q, i + 1)
         ELSE FilterFrom(d, q, i + 1)

\* variant: the filter applied to the empty query as well
FilterIndicesAlways(d, q) == FilterFrom(d, q, 0)

\* let mut filtered_indices = if !search_query.is_empty() {..} else {(0..len)}
FilterIndices(d, q) ==
    IF q # <<>> THEN FilterFrom(d, q, 0)
    ELSE [i \in 1..Len(d) |-> i - 1]

\* -------------------------------------------------------------------- sort
\* data[a].get(col.id).unwrap_or(&val), val = ""
SortKey(d, col, a) == IF col \in DOMAIN d[a + 1] THEN d[a + 1][col] ELSE <<>>

\* variant: the sort order ignored by the comparison
SortCompareAscOnly(d, col, order, a, b) ==
    cmp(SortKey(d, col, a), SortKey(d, col, b))

\* the closure given to sort_by
SortCompare(d, col, order, a, b) ==
    IF order = "Asc" THEN cmp(SortKey(d, col, a), SortKey(d, col, b))
    ELSE cmp(SortKey(d, col, b), SortKey(d, col, a))

\* insert x behind every element that does not compare Greater than x
RECURSIVE InsertStable(_, _, _, _, _)
InsertStable(s, x, d, col, order) ==
    IF s = <<>> THEN <<x>>
    ELSE IF SortCompare(d, col, order, Head(s), x) = "Greater"
         THEN <<x>> \o s
         ELSE <<Head(s)>> \o InsertStable(Tail(s), x, d, col, order)

\* slice::sort_by, a stable sort
RECURSIVE sort_by(_, _, _, _)
sort_by(s, d, col, order) ==
    IF s = <<>> THEN <<>>
    ELSE InsertStable(sort_by(SubSeq(s, 1, Len(s) - 1), d, col, order),
                      s[Len(s)], d, col, order)

Reverse(s) == [i \in 1..Len(s) |-> s[Len(s) + 1 - i]]

\* variant: Desc as the reversed ascending list
SortIndicesReverseDesc(fi, d, sc, so) ==
    IF sc # NoColumn /\ sc \in ColumnIds
    THEN (IF so = "Asc" THEN sort_by(fi, d, sc, "Asc")
          ELSE Reverse(sort_by(fi, d, sc, "Asc")))
    ELSE fi

\* variant: the sort column used without looking it up in columns
SortIndicesNoLookup(fi, d, sc, so) ==
    IF sc # NoColumn THEN sort_by(fi, d, sc, so) ELSE fi

\* if let Some(col_id) = sort_column && let Some(col) = columns.find(..)
SortIndices(fi, d, sc, so) ==
    IF sc # NoColumn /\ sc \in ColumnIds THEN sort_by(fi, d, sc, so) ELSE fi

\* the filtered and sorted index list of a render
ViewIndices(d, q, sc, so) == SortIndices(FilterIndices(d, q), d, sc, so)

\* -------------------------------------------------------------- pagination
\* page_size.max(1)
PageSizeSafe(ps) == Max(ps, 1)

\* variant: without the final .max(1)
TotalPagesNoMin(n, ps) ==
    LET s == PageSizeSafe(ps)
    IN  IF n % s = 0 THEN n \div s ELSE (n \div s) + 1

\* ((len as f64 / page_size_safe as f64).ceil() as usize).max(1)
TotalPages(n, ps) ==
    LET s == PageSizeSafe(ps)
        c == IF n % s = 0 THEN n \div s ELSE (n \div s) + 1
    IN  Max(c, 1)

\* variant: total_pages used as the last page
SaturatingSub1None(n) == n

\* total_pages.saturating_sub(1)
SaturatingSub1(n) == IF n >= 1 THEN n - 1 ELSE 0

\* variant: the stored page used as it is
CurrentPageUnclamped(p, tp) == p

\* page.min(total_pages.saturating_sub(1))
CurrentPage(p, tp) == Min(p, SaturatingSub1(tp))

\* variant: the window started at the stored page
SliceStartRawPage(p, n, ps) == p * PageSizeSafe(ps)

\* let start = current_page * page_size_safe
SliceStart(p, n, ps) == CurrentPage(p, TotalPages(n, ps)) * PageSizeSafe(ps)

\* variant: the end of the window not limited to the list length
SliceEndNoMin(p, n, ps) ==
    (CurrentPage(p, TotalPages(n, ps)) + 1) * PageSizeSafe(ps)

\* let end = ((current_page + 1) * page_size_safe).min(filtered_indices.len())
SliceEnd(p, n, ps) ==
    Min((CurrentPage(p, TotalPages(n, ps)) + 1) * PageSizeSafe(ps), n)

\* filtered_indices[start..end]; <<"panic">> when the range is out of bounds
PageSlice(vi, p, ps) ==
    LET idx == vi
        n == Len(idx)
        st == SliceStart(p, n, ps)
        en == SliceEnd(p, n, ps)
    IN  IF st <= en /\ en <= n THEN SubSeq(idx, st + 1, en)
        ELSE <<"panic">>

\* ----------------------------------------------- the values of one render
filtered_indices == ViewIndices(data, search_query, sort_column, sort_order)

page_size_safe == PageSizeSafe(page_size)

total_pages == TotalPages(Len(filtered_indices), page_size)

current_page == CurrentPage(page, total_pages)

\* let start = ..; let end = ..
slice_start == SliceStart(page, Len(filtered_indices), page_size)

slice_end == SliceEnd(page, Len(filtered_indices), page_size)

page_indices == PageSlice(filtered_indices, page, page_size)

\* .map(|&idx| data[idx].clone())
page_rows ==
    LET idx == page_indices
    IN  [i \in 1..Len(idx) |-> data[idx[i] + 1]]

\* PaginationControls { page: page, total_pages: total_pages }
controls_page == page

\* (page() + 1) in the page indicator
page_indicator_current == controls_page + 1

prev_disabled == controls_page = 0

\* variant: Next disabled only past the last page
next_disabled_past_last == controls_page >= total_pages

next_disabled == controls_page + 1 >= total_pages

\* ------------------------------------------- the render of the Yew adapter
\* columns.iter().any(|col| row.get(col.id).map(..contains..).unwrap_or(false))
YewRowMatches(row, q) ==
    \E c \in 1..Len(columns) :
        /\ columns[c] \in DOMAIN row
        /\ contains(to_lowercase(row[columns[c]]), to_lowercase(q))

RECURSIVE YewFilterFrom(_, _, _)
YewFilterFrom(d, q, i) ==
    IF i >= Len(d) THEN <<>>
    ELSE IF YewRowMatches(d[i + 1], q)
         THEN <<i>> \o YewFilterFrom(d, q, i + 1)
         ELSE YewFilterFrom(d, q, i + 1)

\* if !search_query.is_empty() {..filter..} else {(0..data.len()).collect()}
YewFilterIndices(d, q) ==
    IF q # <<>> THEN YewFilterFrom(d, q, 0)
    ELSE [i \in 1..Len(d) |-> i - 1]

\* data[a].get(col.id).unwrap_or(&val)
YewSortKey(d, col, a) == IF col \in DOMAIN d[a + 1] THEN d[a + 1][col] ELSE <<>>

\* match *sort_order { Asc => a_val.cmp(b_val), Desc => b_val.cmp(a_val) }
YewSortCompare(d, col, order, a, b) ==
    IF order = "Asc" THEN cmp(YewSortKey(d, col, a), YewSortKey(d, col, b))
    ELSE cmp(YewSortKey(d, col, b), YewSortKey(d, col, a))

RECURSIVE YewInsertStable(_, _, _, _, _)
YewInsertStable(s, x, d, col, order) ==
    IF s = <<>> THEN <<x>>
    ELSE IF YewSortCompare(d, col, order, Head(s), x) = "Greater"
         THEN <<x>> \o s
         ELSE <<Head(s)>> \o YewInsertStable(Tail(s), x, d, col, order)

\* filtered_indices.sort_by(..)
RECURSIVE YewSortBy(_, _, _, _)
YewSortBy(s, d, col, order) ==
    IF s = <<>> THEN <<>>
    ELSE YewInsertStable(YewSortBy(SubSeq(s, 1, Len(s) - 1), d, col, order),
                         s[Len(s)], d, col, order)

\* if let Some(col_id) = *sort_column && let Some(col) = columns.find(..)
YewSortIndices(fi, d, sc, so) ==
    IF sc # NoColumn /\ \E c \in 1..Len(columns) : columns[c] = sc
    THEN YewSortBy(fi, d, sc, so) ELSE fi

YewViewIndices(d, q, sc, so) == YewSortIndices(YewFilterIndices(d, q), d, sc, so)

\* (*page_size).max(1)
YewPageSizeSafe(ps) == IF ps >= 1 THEN ps ELSE 1

\* variant: the zero-based number of the last page in the place of the count
YewTotalPagesLastIndex(n, ps) ==
    LET s == YewPageSizeSafe(ps)
    IN  IF n > s THEN (n - 1) \div s ELSE 1

\* ((len as f64 / page_size_safe as f64).ceil() as usize).max(1)
YewTotalPages(n, ps) ==
    LET s == YewPageSizeSafe(ps)
        c == (n + s - 1) \div s
    IN  IF c >= 1 THEN c ELSE 1

\* (*page).min(total_pages.saturating_sub(1))
YewCurrentPage(p, tp) ==
    LET last == IF tp >= 1 THEN tp - 1 ELSE 0
    IN  IF p <= last THEN p ELSE last

\* filtered_indices[start..end].iter().map(|&idx| data[idx].clone())
YewPageRows(d, vi, p, ps) ==
    LET s == YewPageSizeSafe(ps)
        cp == YewCurrentPage(p, YewTotalPages(Len(vi), ps))
        start == cp * s
        end == IF (cp + 1) * s <= Len(vi) THEN (cp + 1) * s ELSE Len(vi)
    IN  [i \in 1..(end - start) |-> d[vi[start + i] + 1]]

\* on_sort_column: the column and the order after a click on id
YewSortColumnAfter(sc, id) == IF id = sc THEN sc ELSE id

YewSortOrderAfter(sc, so, id) ==
    IF id = sc THEN (IF so = "Asc" THEN "Desc" ELSE "Asc") ELSE "Asc"

\* disabled={page_val == 0}, disabled={page_val + 1 >= *total_pages}
YewPrevDisabled(p) == p = 0

YewNextDisabled(p, tp) == p + 1 >= tp

\* on_prev, on_next of the Yew PaginationControls
YewPrevPage(p) == IF p > 0 THEN p - 1 ELSE p

YewNextPage(p, tp) == IF p + 1 < tp THEN p + 1 ELSE p

\* ------------------------------------------------------------------ state
TypeOK ==
    /\ adapter \in Adapters
    /\ \E n \in 0..Len(Columns) : columns = SubSeq(Columns, 1, n)
    /\ Len(data) <= Max(MaxRows, 25)
    /\ page_size \in Nat
    /\ page \in Nat
    /\ sort_column \in {Columns[i] : i \in 1..Len(Columns)} \cup {NoColumn}
    /\ sort_order \in {"Asc", "Desc"}
    /\ search_query \in Queries
    /\ effect_dep \in Queries

\* State after mount: page 0, no sort, query hydrated from ?search= (or "").
Init ==
    /\ adapter \in Adapters
    /\ columns = Columns
    /\ \/ data \in DataSets /\ page_size \in 0..MaxPageSize
       \/ data = ScenarioData /\ page_size = DefaultPageSize
    /\ page = 0
    /\ sort_column = NoColumn
    /\ sort_order = "Asc"
    /\ search_query \in Queries
    /\ timers = <<>>
    /\ debounced_search = <<>>
    /\ effect_dep = search_query

\* Effects run after the render that changed their dependency and before the
\* next event is dispatched.
EffectsFlushed == effect_dep = search_query

\* variant: the effect without page.set(0)
PageResetEffectKeepsPage ==
    /\ effect_dep # search_query
    /\ effect_dep' = search_query
    /\ UNCHANGED <<adapter, columns, data, page_size, page, sort_column,
                   sort_order, search_query, timers, debounced_search>>

\* use_effect keyed on search_query: page.set(0)
PageResetEffect ==
    /\ effect_dep # search_query
    /\ page' = 0
    /\ effect_dep' = search_query
    /\ UNCHANGED <<adapter, columns, data, page_size, sort_column, sort_order,
                   search_query, timers, debounced_search>>

\* match sort_order { Asc => Desc, Desc => Asc }
ToggleOrder(o) == IF o = "Asc" THEN "Desc" ELSE "Asc"

\* variant: the order kept when another column is clicked
SortOrderAfterKeep(sc, so, id) == IF id = sc THEN ToggleOrder(so) ELSE so

SortOrderAfter(sc, so, id) == IF id = sc THEN ToggleOrder(so) ELSE "Asc"

\* variant: the header click returns to the first page
on_sort_column_resets_page(id) ==
    /\ EffectsFlushed
    /\ sort_column' = id
    /\ sort_order' = SortOrderAfter(sort_column, sort_order, id)
    /\ page' = 0
    /\ UNCHANGED <<adapter, columns, data, page_size, search_query, timers,
                   debounced_search, effect_dep>>

on_sort_column(id) ==
    /\ EffectsFlushed
    /\ sort_column' = id
    /\ sort_order' = SortOrderAfter(sort_column, sort_order, id)
    /\ UNCHANGED <<adapter, columns, data, page_size, page, search_query, timers,
                   debounced_search, effect_dep>>

HeaderClick == \E id \in ColumnIds : on_sort_column(id)

\* pagination buttons
PrevPage(p) == IF p > 0 THEN p - 1 ELSE p

\* variant: Next stops one page before the last
NextPageStopsEarly(p, tp) == IF p + 2 < tp THEN p + 1 ELSE p

NextPage(p, tp) == IF p + 1 < tp THEN p + 1 ELSE p

on_prev ==
    /\ EffectsFlushed
    /\ page' = PrevPage(page)
    /\ UNCHANGED <<adapter, columns, data, page_size, sort_column, sort_order,
                   search_query, timers, debounced_search, effect_dep>>

on_next ==
    /\ EffectsFlushed
    /\ page' = NextPage(page, total_pages)
    /\ UNCHANGED <<adapter, columns, data, page_size, sort_column, sort_order,
                   search_query, timers, debounced_search, effect_dep>>

\* Dioxus search input: search_query.set(val); page.set(0)
oninput(val) ==
    /\ adapter = "dioxus"
    /\ EffectsFlushed
    /\ search_query' = val
    /\ page' = 0
    /\ UNCHANGED <<adapter, columns, data, page_size, sort_column, sort_order,
                   timers, debounced_search, effect_dep>>

\* variant: the previous timeout is left running
CancelPreviousNone(ts, handle) == ts

\* Yew search input: cancel the previous timeout, schedule a new one
CancelPrevious(ts, handle) ==
    IF handle = <<"live">> THEN SubSeq(ts, 1, Len(ts) - 1) ELSE ts

on_search_change(val) ==
    /\ adapter = "yew"
    /\ EffectsFlushed
    /\ timers' = Append(CancelPrevious(timers, debounced_search), val)
    /\ debounced_search' = <<"live">>
    /\ UNCHANGED <<adapter, columns, data, page_size, page, sort_column, sort_order,
                   search_query, effect_dep>>

SearchInput == \E val \in Queries : oninput(val) \/ on_search_change(val)

\* Query after update_search_url(query) under the outcome of the URL write
QueryAfterUrlUpdate(cur, query, outcome) ==
    IF outcome = "url_error" THEN cur ELSE query

\* The oldest pending timeout fires and emits update_search_url(value).
TimeoutFires ==
    /\ adapter = "yew"
    /\ EffectsFlushed
    /\ timers # <<>>
    /\ \E outcome \in {"ok", "url_error", "no_window"} :
          search_query' = QueryAfterUrlUpdate(search_query, Head(timers), outcome)
    /\ timers' = Tail(timers)
    /\ debounced_search' =
          IF Len(timers) = 1 /\ debounced_search = <<"live">>
          THEN <<"fired">> ELSE debounced_search
    /\ UNCHANGED <<adapter, columns, data, page_size, page, sort_column, sort_order,
                   effect_dep>>

\* The parent re-renders the component with a shorter dataset (a prefix of
\* at most MaxRows rows).
DataReload ==
    /\ EffectsFlushed
    /\ \E n \in 0..Min(Len(data) - 1, MaxRows) : data' = SubSeq(data, 1, n)
    /\ UNCHANGED <<adapter, columns, page_size, page, sort_column, sort_order,
                   search_query, timers, debounced_search, effect_dep>>

Next ==
    \/ PageResetEffect
    \/ HeaderClick
    \/ on_prev
    \/ on_next
    \/ SearchInput
    \/ TimeoutFires
    \/ DataReload

Spec == Init /\ [][Next]_vars

\* The parent re-renders the component with a shorter column list.
ColumnsReload ==
    /\ EffectsFlushed
    /\ \E n \in 0..(Len(columns) - 1) : columns' = SubSeq(columns, 1, n)
    /\ UNCHANGED <<adapter, data, page_size, page, sort_column, sort_order,
                   search_query, timers, debounced_search, effect_dep>>

NextProps == Next \/ ColumnsReload

\* The component with both props, data and columns, re-supplied by the parent.
SpecProps == Init /\ [][NextProps]_vars

\* ------------------------------------------------- statements of the claims
Lower(c) == IF c >= 65 /\ c <= 90 THEN c + 32 ELSE c

Folded(s) == [i \in 1..Len(s) |-> Lower(s[i])]

IsSubstring(n, h) ==
    \E a \in 0..Len(h) : \E b \in a..Len(h) : SubSeq(h, a + 1, b) = n

\* row i passes the search filter for query q
Passes(i, q) ==
    \/ q = <<>>
    \/ \E k \in ColumnIds :
          /\ k \in DOMAIN data[i + 1]
          /\ IsSubstring(Folded(q), Folded(data[i + 1][k]))

PassingRows == {i \in 0..(Len(data) - 1) : Passes(i, search_query)}

Elems(s) == {s[i] : i \in 1..Len(s)}

Ascending(s) == \A i \in 1..Len(s) : \A j \in 1..Len(s) : i < j => s[i] < s[j]

\* C1: the total page count equals max(1, ceil(n / max(1, page_size))) for
\* n the number of rows passing the filter: it is at least 1, it is the
\* least count of pages of that size holding n rows, and page size 0 counts
\* as page size 1.
C1_TotalPages ==
    LET n == Cardinality(PassingRows)
        s == IF page_size >= 1 THEN page_size ELSE 1
        tp == total_pages
    IN  /\ tp >= 1
        /\ tp * s >= n
        /\ tp > 1 => (tp - 1) * s < n
        /\ page_size = 0 => tp = Max(1, n)

C1_Witness ==
    /\ page = 1
    /\ page_size = 0
    /\ search_query # <<>>
    /\ Cardinality(PassingRows) = 2
    /\ Len(data) = 3
    /\ total_pages = 2

\* C2: the page used to slice satisfies 0 <= current_page < total_pages and
\* equals the stored page whenever the stored page is below total_pages.
C2_ClampedPage ==
    LET tp == total_pages
        cp == current_page
    IN  /\ cp >= 0
        /\ cp < tp
        /\ page < tp => cp = page

C2_Witness ==
    /\ page >= total_pages
    /\ total_pages = 2
    /\ current_page = 1

\* C3: with a non-empty query the filtered index list holds exactly the rows
\* having a declared column whose key is present and whose lowercased value
\* contains the lowercased query, in ascending index order; an absent key
\* matches nothing.
C3_FilterNonEmpty ==
    search_query # <<>> =>
        LET fi == FilterIndices(data, search_query)
        IN  /\ Elems(fi) = PassingRows
            /\ Ascending(fi)

C3_Witness ==
    /\ debounced_search = <<"fired">>
    /\ search_query = <<66>>
    /\ data = <<RowNameOnly, RowNoKeys, RowNameEmail>>
    /\ FilterIndices(data, search_query) = <<0, 2>>

\* C4: with the empty query the filtered index list is 0, 1, .., len - 1.
C4_FilterEmptyQuery ==
    search_query = <<>> =>
        LET fi == FilterIndices(data, search_query)
        IN  /\ Len(fi) = Len(data)
            /\ \A i \in 1..Len(fi) : fi[i] = i - 1

C4_Witness ==
    /\ sort_column = "name"
    /\ search_query = <<>>
    /\ data = <<RowNameOnly, RowNoKeys, RowNameEmail>>
    /\ FilterIndices(data, search_query) = <<0, 1, 2>>

\* string order, stated without cmp: a proper prefix is smaller, otherwise
\* the first differing code decides
StrLess(a, b) ==
    \E k \in 0..Min(Len(a), Len(b)) :
        /\ SubSeq(a, 1, k) = SubSeq(b, 1, k)
        /\ \/ k = Len(a) /\ k < Len(b)
           \/ k < Len(a) /\ k < Len(b) /\ a[k + 1] < b[k + 1]

\* value of row i in column c, the empty string when the key is absent
ValueAt(i, c) == IF c \in DOMAIN data[i + 1] THEN data[i + 1][c] ELSE <<>>

\* position of index x in the index list s
PosIn(s, x) == CHOOSE i \in 1..Len(s) : s[i] = x

\* C5: with a declared sort column the index list is a permutation of the
\* filtered list ordered by the column's value (absent = empty string),
\* non-decreasing for Asc and non-increasing for Desc, rows with equal
\* values keeping their filter order in both directions.
C5_SortedStable ==
    sort_column \in ColumnIds =>
        LET fi == FilterIndices(data, search_query)
            si == filtered_indices
            value == [i \in 1..Len(si) |-> ValueAt(si[i], sort_column)]
        IN  /\ Len(si) = Len(fi)
            /\ Elems(si) = Elems(fi)
            /\ \A i \in 1..Len(si) : \A j \in 1..Len(si) :
                  i < j =>
                    /\ sort_order = "Asc" => ~StrLess(value[j], value[i])
                    /\ sort_order = "Desc" => ~StrLess(value[i], value[j])
                    /\ value[i] = value[j] => si[i] < si[j]

C5_Witness ==
    /\ sort_column = "name"
    /\ sort_order = "Desc"
    /\ search_query = <<>>
    /\ data = <<RowNoKeys, RowNameEmail, RowNoKeys>>
    /\ filtered_indices = <<1, 0, 2>>

\* C6: for the same dataset, query and sort column, two rows with different
\* values in the column are in opposite relative order in the Asc and the
\* Desc result, and two rows with equal values are in the same relative
\* order in both.
C6_AscDescRelation ==
    sort_column \in ColumnIds =>
        LET asc == ViewIndices(data, search_query, sort_column, "Asc")
            desc == ViewIndices(data, search_query, sort_column, "Desc")
            rows == Elems(asc)
            posAsc == [x \in rows |-> PosIn(asc, x)]
            posDesc == [x \in rows |-> PosIn(desc, x)]
            value == [x \in rows |-> ValueAt(x, sort_column)]
        IN  /\ Elems(desc) = rows
            /\ \A a \in rows : \A b \in rows :
                  a # b =>
                    IF value[a] = value[b]
                    THEN (posAsc[a] < posAsc[b]) = (posDesc[a] < posDesc[b])
                    ELSE (posAsc[a] < posAsc[b]) # (posDesc[a] < posDesc[b])

C6_Witness ==
    /\ sort_column = "email"
    /\ sort_order = "Desc"
    /\ search_query = <<>>
    /\ data = <<RowNameEmail, RowNameOnly, RowNameEmail>>
    /\ filtered_indices = <<0, 2, 1>>

\* C7: the rendered rows are the rows at positions current_page * s up to
\* min(n, (current_page + 1) * s) of the filtered and sorted index list, in
\* that order: at most s rows, each passing the filter; without a filter 25
\* rows at page size 10 make 3 pages of 10, 10 and 5 rows.
C7_PageWindow ==
    LET vi == filtered_indices
        n == Len(vi)
        s == IF page_size >= 1 THEN page_size ELSE 1
        tp == total_pages
        cp == current_page
        lo == cp * s
        hi == IF (cp + 1) * s < n THEN (cp + 1) * s ELSE n
        pi == page_indices
        pr == page_rows
        passing == PassingRows
    IN  /\ pi = [i \in 1..(hi - lo) |-> vi[lo + i]]
        /\ Len(pr) = Len(pi)
        /\ Len(pr) <= s
        /\ \A i \in 1..Len(pr) :
              /\ pi[i] \in passing
              /\ pr[i] = data[pi[i] + 1]
        /\ (Len(data) = 25 /\ page_size = 10 /\ search_query = <<>>) =>
              /\ tp = 3
              /\ Len(pr) = (IF cp = 2 THEN 5 ELSE 10)
              /\ cp = 2 => pi = [i \in 1..5 |-> 19 + i]

C7_Witness ==
    /\ Len(data) = 25
    /\ page_size = 10
    /\ search_query = <<>>
    /\ page = 2
    /\ Len(page_rows) = 5

\* C8: a prev/next click computes advancePage for every stored page, a stale
\* one included: whenever a click can be dispatched, Previous gives
\* max(0, page - 1), Next gives min(total_pages - 1, page + 1), and neither
\* result is negative or exceeds total_pages - 1.
C8_AdvancePage ==
    EffectsFlushed =>
        LET tp == total_pages
        IN  /\ PrevPage(page) = Max(0, page - 1)
            /\ NextPage(page, tp) = Min(tp - 1, page + 1)
            /\ PrevPage(page) >= 0
            /\ PrevPage(page) <= tp - 1
            /\ NextPage(page, tp) <= tp - 1

\* C9: a header click on column c flips the order and keeps the column when
\* c is the current sort column, and otherwise makes c the sort column with
\* order Asc whatever the previous order was.
C9_ToggleSort ==
    [][\A id \in ColumnIds :
          on_sort_column(id) =>
              IF id = sort_column
              THEN /\ sort_column' = id
                   /\ sort_order' # sort_order
                   /\ sort_order' \in {"Asc", "Desc"}
              ELSE /\ sort_column' = id
                   /\ sort_order' = "Asc"]_vars

C9_Witness ==
    /\ sort_column = "email"
    /\ sort_order = "Desc"
    /\ page = 1

\* C10: in every render the pagination controls show the clamped page: the
\* displayed page number lies in 1..total_pages and the page the controls
\* use equals the current_page used to slice the rows.
C10_ControlsShowClampedPage ==
    /\ page_indicator_current >= 1
    /\ page_indicator_current <= total_pages
    /\ controls_page = current_page

\* C11: no reachable view state makes the render fail: the slice bounds
\* satisfy start <= end <= len(filtered_indices) and every index of
\* filtered_indices is below len(data), for known and unknown sort columns
\* and stale stored pages alike.
C11_RenderNeverFails ==
    LET vi == filtered_indices
        n == Len(vi)
        st == SliceStart(page, n, page_size)
        en == SliceEnd(page, n, page_size)
    IN  /\ 0 <= st
        /\ st <= en
        /\ en <= n
        /\ \A i \in 1..n : vi[i] >= 0 /\ vi[i] < Len(data)
        /\ Len(PageSlice(vi, page, page_size)) = en - st

C11_Witness ==
    /\ page = 2
    /\ total_pages = 1
    /\ search_query # <<>>
    /\ Len(filtered_indices) = 1
    /\ sort_column = "email"
    /\ columns = <<"name">>
    /\ slice_start = 0
    /\ slice_end = 1

\* C12: a failed URL write never stops typed text from taking effect: when
\* the Dioxus input handler has run, and when the Yew debounce timeout of
\* the typed text has fired, the search query equals the text typed,
\* whatever the outcome of the URL update.
C12_TypedTextTakesEffect ==
    [][/\ TimeoutFires => search_query' = Head(timers)
       /\ \A val \in Queries : oninput(val) => search_query' = val]_vars

\* C13: with a sort column that is not the id of a declared column nothing
\* is sorted: the index list, the page count and the visible rows are those
\* of a render without sort column, for either sort order.
C13_UnknownSortColumnIgnored ==
    (sort_column # NoColumn /\ sort_column \notin ColumnIds) =>
        LET fi == FilterIndices(data, search_query)
            vi == filtered_indices
            unsortedPage == PageSlice(fi, page, page_size)
        IN  /\ vi = fi
            /\ \A so \in {"Asc", "Desc"} :
                  ViewIndices(data, search_query, sort_column, so)
                      = ViewIndices(data, search_query, NoColumn, so)
            /\ total_pages = TotalPages(Len(fi), page_size)
            /\ page_indices = unsortedPage
            /\ page_rows = [i \in 1..Len(unsortedPage) |-> data[unsortedPage[i] + 1]]

C13_Witness ==
    /\ sort_column = "email"
    /\ sort_order = "Desc"
    /\ columns = <<"name">>
    /\ data = <<RowNameOnly, RowNameEmail>>
    /\ filtered_indices = <<0, 1>>
    /\ page_size = 1
    /\ page = 1

\* C15: whenever the search query changes value the stored page is reset to
\* 0 before the next event is handled: the Dioxus input handler sets page 0
\* together with the query, otherwise the change leaves the effect keyed on
\* the query pending, and from a state with the effect pending the only step
\* is the effect, which sets page 0 and leaves the query alone.
C15_PageResetOnQueryChange ==
    [][/\ search_query' # search_query =>
              (page' = 0 \/ effect_dep' # search_query')
       /\ (adapter = "dioxus" /\ search_query' # search_query) => page' = 0
       /\ effect_dep # search_query =>
              /\ page' = 0
              /\ search_query' = search_query
              /\ effect_dep' = search_query]_vars

C15_Witness ==
    /\ adapter = "yew"
    /\ effect_dep # search_query
    /\ search_query = <<66>>
    /\ page = 1
    /\ page >= total_pages

\* C16: the Yew search input is debounced by a cancellable timer: at most
\* one debounce timeout is pending at any time; an input event cancels the
\* pending timeout before scheduling its own, so after the event the only
\* pending timeout carries the value just typed and the query has not moved;
\* the timeout that fires after a burst is therefore the last one, it
\* applies no value other than the last typed one, and nothing stays pending.
C16_Debounce ==
    /\ [](Len(timers) <= 1)
    /\ [][/\ \A val \in Queries : on_search_change(val) =>
                 /\ timers' = <<val>>
                 /\ search_query' = search_query
          /\ TimeoutFires =>
                 /\ timers' = <<>>
                 /\ search_query' \in {Head(timers), search_query}]_vars

C16_Witness ==
    /\ adapter = "yew"
    /\ timers = << <<66>> >>
    /\ debounced_search = <<"live">>
    /\ search_query = <<>>
    /\ EffectsFlushed

\* C17: the Dioxus and the Yew adapter are the same engine: on the same
\* data, columns, page size, stored page, sort column, sort order and query
\* the render of one computes the index list, total_pages, current_page and
\* visible rows of the other, and a header click, a prev click and a next
\* click lead both to the same next view state.
C17_SameEngine ==
    LET dvi == filtered_indices
        yvi == YewViewIndices(data, search_query, sort_column, sort_order)
        dtp == TotalPages(Len(dvi), page_size)
        ytp == YewTotalPages(Len(yvi), page_size)
        dpi == PageSlice(dvi, page, page_size)
    IN  /\ yvi = dvi
        /\ ytp = dtp
        /\ YewCurrentPage(page, ytp) = CurrentPage(page, dtp)
        /\ YewPageRows(data, yvi, page, page_size)
               = [i \in 1..Len(dpi) |-> data[dpi[i] + 1]]
        /\ \A id \in ColumnIds :
               /\ YewSortColumnAfter(sort_column, id) = id
               /\ YewSortOrderAfter(sort_column, sort_order, id)
                      = SortOrderAfter(sort_column, sort_order, id)
        /\ YewPrevPage(page) = PrevPage(page)
        /\ YewNextPage(page, ytp) = NextPage(page, dtp)

C17_Witness ==
    /\ adapter = "yew"
    /\ sort_column = "name"
    /\ sort_order = "Desc"
    /\ search_query = <<66>>
    /\ Len(filtered_indices) = 3
    /\ page_size = 2
    /\ page = 1
    /\ total_pages = 2

\* C18: whenever the filtered index list is non-empty the rendered page
\* holds between 1 and max(1, page_size) rows, whatever the stored page,
\* also one far beyond the last page; the rendered page is empty exactly
\* when no row passes the filter.
C18_NonEmptyPage ==
    LET vi == filtered_indices
        n == Len(vi)
        s == Max(1, page_size)
        st == SliceStart(page, n, page_size)
        en == SliceEnd(page, n, page_size)
        shown == en - st
    IN  /\ n > 0 => (shown >= 1 /\ shown <= s)
        /\ Len(PageSlice(vi, page, page_size)) = shown
        /\ shown = 0 <=> PassingRows = {}

C18_Witness ==
    /\ page = 2
    /\ total_pages = 1
    /\ page_size = DefaultPageSize
    /\ Len(filtered_indices) = 1
    /\ Len(page_rows) = 1

\* the rows of the pages p, p + 1, .., tp - 1 one after the other
RECURSIVE ConcatPages(_, _, _, _)
ConcatPages(vi, ps, p, tp) ==
    IF p >= tp THEN <<>>
    ELSE PageSlice(vi, p, ps) \o ConcatPages(vi, ps, p + 1, tp)

\* the stored page after k clicks on Next from page p
RECURSIVE ClickNext(_, _, _)
ClickNext(p, tp, k) ==
    IF k = 0 THEN p ELSE NextPage(ClickNext(p, tp, k - 1), tp)

\* C19: the pages tile the result: the pages rendered for the stored pages
\* 0, 1, .., total_pages - 1 concatenate to the filtered and sorted
\* sequence, every row passing the filter is on exactly one page, and
\* every page is the stored page after that many clicks on Next from 0.
C19_PagesTile ==
    LET vi == filtered_indices
        tp == TotalPages(Len(vi), page_size)
    IN  /\ ConcatPages(vi, page_size, 0, tp) = vi
        /\ \A r \in PassingRows :
               Cardinality({p \in 0..(tp - 1) :
                               r \in Elems(PageSlice(vi, p, page_size))}) = 1
        /\ \A p \in 0..(tp - 1) : ClickNext(0, tp, p) = p

C19_Witness ==
    /\ adapter = "dioxus"
    /\ search_query = <<>>
    /\ sort_column = "name"
    /\ sort_order = "Asc"
    /\ Len(filtered_indices) = 3
    /\ page_size = 2
    /\ total_pages = 2
    /\ page = 1
    /\ page_indices = SubSeq(filtered_indices, 3, 3)

\* C20: each user action changes its own part of the view state only: a
\* header click leaves the stored page, the query and total_pages as they
\* were; a prev or next click leaves the sort column, the sort order and
\* the query as they were; no user action or effect changes the dataset or
\* the column list.
C20_Frame ==
    [][/\ HeaderClick =>
              /\ page' = page
              /\ search_query' = search_query
              /\ columns' = columns
              /\ TotalPages(Len(ViewIndices(data', search_query',
                                            sort_column', sort_order')),
                            page_size') = total_pages
       /\ (on_prev \/ on_next) =>
              /\ sort_column' = sort_column
              /\ sort_order' = sort_order
              /\ search_query' = search_query
       /\ (HeaderClick \/ on_prev \/ on_next \/ SearchInput \/ TimeoutFires
              \/ PageResetEffect) =>
              /\ data' = data
              /\ columns' = columns]_vars

C20_Witness ==
    /\ adapter = "dioxus"
    /\ sort_column = "email"
    /\ sort_order = "Desc"
    /\ search_query = <<66>>
    /\ page = 1
    /\ total_pages = 2

\* C21: the disabled flags of the pagination buttons agree with their
\* handlers in every state, a stale stored page included: Previous is
\* disabled exactly when a click on it leaves the stored page as it is
\* (page = 0), Next is disabled exactly when a click on it leaves the
\* stored page as it is (page + 1 >= total_pages), and with one page and
\* page 0 both are disabled; the same holds of the Yew controls.
C21_DisabledFlagsAgree ==
    LET tp == total_pages
    IN  /\ prev_disabled <=> PrevPage(page) = page
        /\ prev_disabled <=> page = 0
        /\ next_disabled <=> NextPage(page, tp) = page
        /\ next_disabled <=> page + 1 >= tp
        /\ (tp = 1 /\ page = 0) => (prev_disabled /\ next_disabled)
        /\ YewPrevDisabled(page) <=> YewPrevPage(page) = page
        /\ YewNextDisabled(page, tp) <=> YewNextPage(page, tp) = page
        /\ (tp = 1 /\ page = 0) =>
               (YewPrevDisabled(page) /\ YewNextDisabled(page, tp))

C21_Witness ==
    /\ EffectsFlushed
    /\ page = 2
    /\ total_pages = 1
    /\ current_page = 0
    /\ next_disabled
    /\ ~prev_disabled
    /\ NextPage(page, total_pages) = 2

====
